---------------------------- MODULE Spec2Model ----------------------------
(* The transcription pipeline of src/src/app/api/transcribe/route.ts       *)
(* (POST / processAudio, splitAudioIntoChunks, splitChunk, getAudioInfo,   *)
(* downloadFromUrl), the earlier revision of the same handler kept in      *)
(* src/unnamed/part_001 (segment-based splitAudio, cleanup inside the try) *)
(* and the size-based planner kept in src/next.config.mjs.                 *)
(*                                                                         *)
(* JavaScript runs each continuation to completion, so one action is the   *)
(* code between two awaits.  Durations are integers counted in ticks of    *)
(* 1/TicksPerSecond seconds.  Strings are sequences of one-character       *)
(* strings.                                                                *)
EXTENDS Integers, Sequences, FiniteSets, TLC

\* ------------------------------------------------------------- bounds
TicksPerSecond == 100
MaxChunks == 3
MaxNow == 1
PlanSlack == 40

\* ---------------------------------------------------------- constants
\* route.ts:21   const chunkDuration = 10 * 60
chunkDuration == 10 * 60 * TicksPerSecond
\* next.config.mjs:54   const CHUNK_SIZE = 1 * 1024 * 1024
CHUNK_SIZE == 1 * 1024 * 1024
\* part_001:13   const MAX_FILE_SIZE = 25 * 1024 * 1024
MAX_FILE_SIZE == 25 * 1024 * 1024

Reqs == {1, 2}
NoReq == 0
Unknown == -1

\* ------------------------------------------------------------ helpers
Min(a, b) == IF a < b THEN a ELSE b

\* Math.ceil(a / b) for a >= 0, b > 0
Ceil(a, b) == (a + b - 1) \div b

\* Math.round(a / b) for a >= 0, b > 0: floor(a/b + 1/2)
Round(a, b) == (2 * a + b) \div (2 * b)

IsSpace(c) == c = " "

RECURSIVE TrimStart(_)
TrimStart(s) ==
  IF s # <<>> /\ IsSpace(Head(s)) THEN TrimStart(Tail(s)) ELSE s

RECURSIVE TrimEnd(_)
TrimEnd(s) ==
  IF s # <<>> /\ IsSpace(s[Len(s)]) THEN TrimEnd(SubSeq(s, 1, Len(s) - 1)) ELSE s

\* String.prototype.trimStart alone
TrimBad(s) == TrimStart(s)
\* String.prototype.trim
Trim(s) == TrimEnd(TrimStart(s))

\* ------------------------------------------------------------ planner
\* the floor plus one, which differs from the ceiling at exact multiples
numberOfChunksBad(duration, limit) == (duration \div limit) + 1
\* route.ts:22   Math.ceil(duration / chunkDuration)
numberOfChunks(duration, limit) == Ceil(duration, limit)

\* a range of full length whatever remains of the input
splitChunkBad(index, limit, totalDuration) ==
  [index |-> index, start |-> index * limit, duration |-> limit]
\* route.ts:33-34   the range splitChunk hands to ffmpeg
splitChunk(index, limit, totalDuration) ==
  [index    |-> index,
   start    |-> index * limit,
   duration |-> Min(limit, totalDuration - index * limit)]

\* next.config.mjs:72-80   -ss start -to end: ffmpeg reads [start, end)
sizeChunk(index, chunkSize, totalSize) ==
  [index |-> index,
   start |-> index * chunkSize,
   end   |-> Min((index + 1) * chunkSize, totalSize) - 1]

\* ------------------------------------------------------- temp directory
\* path.join(os.tmpdir(), 'transcriber-temp', ...) names, as records
NoPath == [kind |-> "none", id |-> 0, ext |-> ""]

\* route.ts:97, route.ts:51   `input-${Date.now()}.${ext}`
InputName(ts, ext) == [kind |-> "input", id |-> ts, ext |-> ext]

\* route.ts:32   `chunk_${index}${path.extname(filePath)}`
ChunkName(index, ext) == [kind |-> "chunk", id |-> index, ext |-> ext]

\* route.ts:170   file.startsWith('chunk_')
IsChunkFile(name) == name.kind = "chunk"

Exists(dir, name) == name \in DOMAIN dir

\* fsPromises.writeFile / ffmpeg -y output: create or replace
WriteFile(dir, name, content) ==
  [x \in (DOMAIN dir) \cup {name} |-> IF x = name THEN content ELSE dir[x]]

\* fsPromises.unlink(...).catch(console.error): a missing file is not an error here
Unlink(dir, name) == [x \in (DOMAIN dir) \ {name} |-> dir[x]]

\* route.ts:56-70   ffmpeg.ffprobe: rejects, or resolves with duration || 0
getAudioInfo(dir, path) ==
  IF Exists(dir, path) /\ dir[path].ok
  THEN [ok |-> TRUE,
        duration |-> IF dir[path].duration = Unknown THEN 0 ELSE dir[path].duration]
  ELSE [ok |-> FALSE, duration |-> 0]

\* a check that lets a duration of 0 through
TooShortBad(duration) == duration < 0
\* route.ts:111   audioInfo.duration < 0.1
TooShort(duration) == duration * 10 < TicksPerSecond

\* ------------------------------------------------------------- inputs
Exts == {"mp3", "wav"}

\* what ffprobe would report for the uploaded or downloaded bytes
Durations ==
  {Unknown, 0, TicksPerSecond \div 20}
    \cup {TicksPerSecond}
    \cup {k * chunkDuration : k \in 1..MaxChunks}
    \cup {(k - 1) * chunkDuration + 1 : k \in 2..MaxChunks}

Media == [ok : {TRUE}, duration : Durations] \cup {[ok |-> FALSE, duration |-> Unknown]}

\* route.ts:82-84   the multipart fields
\* the byte sizes fsPromises.stat can report, around MAX_FILE_SIZE
Sizes == {MAX_FILE_SIZE, MAX_FILE_SIZE + 1}

\* youtube: whether ytdl.validateURL accepts the url (part_001:55)
AllForms ==
  [file : BOOLEAN, url : BOOLEAN, apiKey : BOOLEAN, ext : Exts, media : Media,
   size : Sizes, youtube : BOOLEAN]

NoForm == [file |-> FALSE, url |-> FALSE, apiKey |-> FALSE, ext |-> "mp3",
           media |-> [ok |-> FALSE, duration |-> Unknown],
           size |-> MAX_FILE_SIZE, youtube |-> FALSE]

\* transcription.text values returned by the API
Texts == {<<"a">>, <<" ", "b">>}

\* --------------------------------------------------------------- state
VARIABLES
  task,       \* per request: the locals of POST / processAudio and its stream
  fs,         \* the shared directory os.tmpdir()/transcriber-temp: name -> file
  dirExists,  \* whether that directory has been created
  now,        \* Date.now()
  planner,    \* the arguments and the result of one run of a chunk planner
  client      \* the state of the TranscriptionForm component and of its handleSubmit

vars == <<task, fs, dirExists, now, planner, client>>

NoError == [kind |-> "none", chunk |-> 0]
Err(kind, chunk) == [kind |-> kind, chunk |-> chunk]

NoRecord == [type |-> "none", progress |-> 0, transcription |-> <<>>,
             chunkTranscription |-> <<>>, current |-> 0, total |-> 0,
             error |-> NoError, newline |-> FALSE]

\* route.ts:136-144   JSON.stringify({progress, transcription, ...}) + '\n'
ProgressRecord(p, full, text, cur, tot) ==
  [type |-> "progress", progress |-> p, transcription |-> full,
   chunkTranscription |-> text, current |-> cur, total |-> tot,
   error |-> NoError, newline |-> TRUE]

\* route.ts:161   JSON.stringify({ error: errorMessage })
ErrorRecord(e) ==
  [type |-> "error", progress |-> 0, transcription |-> <<>>,
   chunkTranscription |-> <<>>, current |-> 0, total |-> 0,
   error |-> e, newline |-> FALSE]

NoPlanner == [kind |-> "none", total |-> 0, limit |-> 0, plan |-> <<>>]

\* TranscriptionForm.tsx:10   the transcription shown: a text received, or the
\* message set by the catch of handleSubmit
ClientText(s) == [kind |-> "text", text |-> s, error |-> NoError]
ClientCancelled == [kind |-> "cancelled", text |-> <<>>, error |-> NoError]
ClientFailure(e) == [kind |-> "error", text |-> <<>>, error |-> e]

\* TranscriptionForm.tsx:10-15   the useState initial values; body, delivered,
\* applied, torn, refused and exit are history of the one handleSubmit
InitClient ==
  [pc |-> "idle", isLoading |-> FALSE, abortController |-> FALSE,
   signalAborted |-> FALSE, progress |-> 0, transcription |-> ClientText(<<>>),
   chunkProgress |-> [current |-> 0, total |-> 0], chunkTranscriptions |-> <<>>,
   body |-> <<>>, delivered |-> <<>>, applied |-> <<>>, torn |-> FALSE,
   refused |-> FALSE, exit |-> "none"]

InitTask ==
  [pc |-> "idle", form |-> NoForm, audioFilePath |-> NoPath, duration |-> 0,
   ex |-> <<>>, chunks |-> <<>>, i |-> 0, fullTranscription |-> <<>>,
   pending |-> NoRecord, error |-> NoError, writer |-> "none", out |-> <<>>,
   aborted |-> FALSE, abortedAfter |-> 0, abortedDuring |-> 0, reads |-> 0,
   closes |-> 0, wroteAfterClose |-> FALSE, calls |-> <<>>, files |-> {}, cleanups |-> 0,
   cleaned |-> FALSE, rejected |-> FALSE]

Init ==
  /\ task = [r \in Reqs |-> InitTask]
  /\ fs = <<>>
  /\ dirExists \in BOOLEAN
  /\ now = 0
  /\ planner = NoPlanner
  /\ client = InitClient


\* ------------------------------------------- route.ts: POST / processAudio
Set(r, t) == task' = [task EXCEPT ![r] = t]

\* a throw inside the try of processAudio: control goes to the catch (route.ts:158)
Throw(t, kind, chunk) == [t EXCEPT !.pc = "catch", !.error = Err(kind, chunk)]

StartCall(t, dir) ==
  [t EXCEPT !.pc = "transcribe",
            !.calls = Append(@, [chunk |-> t.i + 1,
                                 src |-> IF Exists(dir, t.chunks[t.i + 1])
                                         THEN dir[t.chunks[t.i + 1]].owner
                                         ELSE NoReq,
                                 done |-> FALSE, ok |-> FALSE, text |-> <<>>])]

\* the loop without its cancellation check
LoopTopBad(t, dir) ==
  IF t.i < Len(t.chunks) THEN StartCall(t, dir) ELSE [t EXCEPT !.pc = "close"]

\* route.ts:119-125 and 156-157: the loop condition, the cancellation check and
\* the createReadStream of iteration t.i; after the loop, writer.close() is awaited
LoopTop(t, dir) ==
  IF t.i < Len(t.chunks)
  THEN IF t.aborted
       THEN Throw(t, "cancelled", 0)
       ELSE StartCall(t, dir)
  ELSE [t EXCEPT !.pc = "close"]

\* route.ts:72-77, 177-185   the stream is created and processAudio started
POST(r) ==
  /\ task[r].pc = "idle"
  /\ Set(r, [task[r] EXCEPT !.pc = "formData", !.writer = "open"])
  /\ UNCHANGED <<fs, dirExists, now, planner, client>>

\* a validation that forgets the API key
ReadFormDataBad(r, Forms) ==
  /\ task[r].pc = "formData"
  /\ \E f \in Forms :
       LET t == [task[r] EXCEPT !.form = f] IN
       Set(r, IF ~f.file /\ ~f.url
              THEN Throw(t, "required", 0)
              ELSE [t EXCEPT !.pc = "saveInput"])
  /\ UNCHANGED <<fs, dirExists, now, planner, client>>

\* route.ts:81-90   await req.formData() resolves; validation
ReadFormData(r, Forms) ==
  /\ task[r].pc = "formData"
  /\ \E f \in Forms :
       LET t == [task[r] EXCEPT !.form = f] IN
       Set(r, IF (~f.file /\ ~f.url) \/ ~f.apiKey
              THEN Throw(t, "required", 0)
              ELSE [t EXCEPT !.pc = "saveInput"])
  /\ UNCHANGED <<fs, dirExists, now, planner, client>>

\* route.ts:81   await req.formData() rejects (body is not a valid form)
FormDataFail(r) ==
  /\ task[r].pc = "formData"
  /\ Set(r, Throw(task[r], "formData", 0))
  /\ UNCHANGED <<fs, dirExists, now, planner, client>>

\* route.ts:92-102, 47-54   the upload or the download is written to the temp dir
SaveInput(r) ==
  /\ task[r].pc = "saveInput"
  /\ LET f == task[r].form
         name == InputName(now, IF f.file THEN f.ext ELSE "mp3")
     IN /\ fs' = WriteFile(fs, name, [owner |-> r, ok |-> f.media.ok,
                                      duration |-> f.media.duration, start |-> 0])
        /\ Set(r, [task[r] EXCEPT !.pc = "probe", !.audioFilePath = name])
  /\ dirExists' = TRUE
  /\ UNCHANGED <<now, planner, client>>

\* route.ts:93-98, 48-52   arrayBuffer / axios.get ("fetch") or ensureDir / writeFile
\* ("write") rejects; in the file branch audioFilePath is assigned before writeFile
SaveInputFail(r) ==
  /\ task[r].pc = "saveInput"
  /\ \E stage \in {"fetch", "write"} :
       LET f == task[r].form
           t == Throw(task[r], "save", 0)
       IN Set(r, IF stage = "write" /\ f.file
                 THEN [t EXCEPT !.audioFilePath = InputName(now, f.ext)]
                 ELSE t)
  /\ UNCHANGED <<fs, dirExists, now, planner, client>>

\* route.ts:108-113   await getAudioInfo(audioFilePath); the duration check
Probe(r) ==
  /\ task[r].pc = "probe"
  /\ LET info == getAudioInfo(fs, task[r].audioFilePath) IN
     Set(r, IF ~info.ok THEN Throw(task[r], "probe", 0)
            ELSE IF TooShort(info.duration) THEN Throw(task[r], "tooShort", 0)
            ELSE [task[r] EXCEPT !.pc = "split"])
  /\ UNCHANGED <<fs, dirExists, now, planner, client>>

\* route.ts:16-28   splitAudioIntoChunks up to Promise.all: ensureDir, the second
\* probe, and one ffmpeg started per planned chunk
splitAudioIntoChunks(r) ==
  /\ task[r].pc = "split"
  /\ LET info == getAudioInfo(fs, task[r].audioFilePath) IN
     Set(r, IF ~info.ok THEN Throw(task[r], "probe", 0)
            ELSE [task[r] EXCEPT
                    !.pc = "splitWait",
                    !.duration = info.duration,
                    !.ex = [k \in 1..numberOfChunks(info.duration, chunkDuration)
                              |-> "running"]])
  /\ dirExists' = TRUE
  /\ UNCHANGED <<fs, now, planner, client>>

\* route.ts:37-43   the ffmpeg of chunk k-1, started with the input it has just
\* been given, creates (or replaces) its output file
ExtractOpen(r, k) ==
  /\ k \in DOMAIN task[r].ex
  /\ task[r].ex[k] = "running"
  /\ dirExists
  /\ LET c == splitChunk(k - 1, chunkDuration, task[r].duration) IN
     fs' = WriteFile(fs, ChunkName(k - 1, task[r].audioFilePath.ext),
                     [owner |-> r, ok |-> FALSE, duration |-> c.duration,
                      start |-> c.start])
  /\ Set(r, [task[r] EXCEPT !.ex[k] = "open"])
  /\ UNCHANGED <<dirExists, now, planner, client>>

\* route.ts:41   'end': the promise of chunk k-1 resolves with its path
ExtractEnd(r, k) ==
  /\ k \in DOMAIN task[r].ex
  /\ task[r].ex[k] = "open"
  /\ LET name == ChunkName(k - 1, task[r].audioFilePath.ext) IN
     fs' = IF Exists(fs, name) /\ fs[name].owner = r
           THEN [fs EXCEPT ![name].ok = TRUE]
           ELSE fs
  /\ Set(r, [task[r] EXCEPT !.ex[k] = "end"])
  /\ UNCHANGED <<dirExists, now, planner, client>>

\* route.ts:41   'end' after ffmpeg wrote no audio (exit code 0, zero-byte
\* output): the promise of chunk k-1 resolves with its path all the same
ExtractEndEmpty(r, k) ==
  /\ k \in DOMAIN task[r].ex
  /\ task[r].ex[k] = "open"
  /\ LET name == ChunkName(k - 1, task[r].audioFilePath.ext) IN
     fs' = IF Exists(fs, name) /\ fs[name].owner = r
           THEN [fs EXCEPT ![name].ok = TRUE, ![name].duration = 0]
           ELSE fs
  /\ Set(r, [task[r] EXCEPT !.ex[k] = "empty"])
  /\ UNCHANGED <<dirExists, now, planner, client>>

\* route.ts:42   'error': the promise of chunk k-1 rejects
ExtractError(r, k) ==
  /\ k \in DOMAIN task[r].ex
  /\ task[r].ex[k] \in {"running", "open"}
  /\ Set(r, [task[r] EXCEPT !.ex[k] = "error"])
  /\ UNCHANGED <<fs, dirExists, now, planner, client>>

\* a split that goes on as soon as the first extraction has ended
SplitResolveBad(r) ==
  /\ task[r].pc = "splitWait"
  /\ \E k \in DOMAIN task[r].ex : k = 1 /\ task[r].ex[k] \in {"end", "empty"}
  /\ Set(r, LoopTop([task[r] EXCEPT
                       !.chunks = [k \in DOMAIN task[r].ex
                                     |-> ChunkName(k - 1, task[r].audioFilePath.ext)],
                       !.i = 0], fs))
  /\ UNCHANGED <<fs, dirExists, now, planner, client>>

\* route.ts:28, 115-125   Promise.all resolves: chunks is the list of paths
SplitResolve(r) ==
  /\ task[r].pc = "splitWait"
  /\ \A k \in DOMAIN task[r].ex : task[r].ex[k] \in {"end", "empty"}
  /\ Set(r, LoopTop([task[r] EXCEPT
                       !.chunks = [k \in DOMAIN task[r].ex
                                     |-> ChunkName(k - 1, task[r].audioFilePath.ext)],
                       !.i = 0], fs))
  /\ UNCHANGED <<fs, dirExists, now, planner, client>>

\* route.ts:28, 115   Promise.all rejects with the first extraction error
SplitReject(r) ==
  /\ task[r].pc = "splitWait"
  /\ \E k \in DOMAIN task[r].ex : task[r].ex[k] = "error"
  /\ Set(r, Throw(task[r], "extract", 0))
  /\ UNCHANGED <<fs, dirExists, now, planner, client>>


\* the call in flight returns: resolved with transcription.text, or rejected
MarkCall(calls, ok, text) ==
  [calls EXCEPT ![Len(calls)].done = TRUE, ![Len(calls)].ok = ok,
                ![Len(calls)].text = text]

\* route.ts:135   Math.round(((i + 1) / chunks.length) * 100)
progressOfBad(i, n) == Round(i * 100, n)
progressOf(i, n) == Round((i + 1) * 100, n)

\* a loop that does not await writer.write before its next iteration
TranscribeOkBad(r, Returned) ==
  /\ task[r].pc = "transcribe"
  /\ task[r].calls[Len(task[r].calls)].src # NoReq
  /\ \E text \in Returned :
       LET t == task[r]
           full == t.fullTranscription \o text \o <<" ">>
       IN Set(r, LoopTop([t EXCEPT
                            !.calls = MarkCall(@, TRUE, text),
                            !.fullTranscription = full,
                            !.i = @ + 1], fs))
  /\ UNCHANGED <<fs, dirExists, now, planner, client>>

\* a loop that looks at req.signal again when the call returns
TranscribeOkAbortable(r, Returned) ==
  /\ task[r].pc = "transcribe"
  /\ task[r].calls[Len(task[r].calls)].src # NoReq
  /\ \E text \in Returned :
       LET t == task[r]
           full == t.fullTranscription \o text \o <<" ">>
           u == [t EXCEPT !.calls = MarkCall(@, TRUE, text), !.fullTranscription = full]
       IN Set(r, IF t.aborted
                 THEN Throw(u, "cancelled", 0)
                 ELSE [u EXCEPT
                         !.pc = "write",
                         !.pending = ProgressRecord(progressOf(t.i, Len(t.chunks)),
                                                    Trim(full), Trim(text),
                                                    t.i + 1, Len(t.chunks))])
  /\ UNCHANGED <<fs, dirExists, now, planner, client>>

\* route.ts:128-144   the transcription call of chunk i resolves; the progress
\* record is built and writer.write is awaited
TranscribeOk(r, Returned) ==
  /\ task[r].pc = "transcribe"
  /\ task[r].calls[Len(task[r].calls)].src # NoReq
  /\ \E text \in Returned :
       LET t == task[r]
           full == t.fullTranscription \o text \o <<" ">>
       IN Set(r, [t EXCEPT
                    !.pc = "write",
                    !.calls = MarkCall(@, TRUE, text),
                    !.fullTranscription = full,
                    !.pending = ProgressRecord(progressOf(t.i, Len(t.chunks)),
                                               Trim(full), Trim(text),
                                               t.i + 1, Len(t.chunks))])
  /\ UNCHANGED <<fs, dirExists, now, planner, client>>

\* a failed call that is skipped instead of aborting the request
TranscribeFailBad(r) ==
  /\ task[r].pc = "transcribe"
  /\ Set(r, LoopTop([task[r] EXCEPT !.calls = MarkCall(@, FALSE, <<>>), !.i = @ + 1], fs))
  /\ UNCHANGED <<fs, dirExists, now, planner, client>>

\* route.ts:128, 147-152   the call rejects (API error, or the chunk file cannot be
\* read): rethrown as `Error processing chunk ${i + 1}: ...`
TranscribeFail(r) ==
  /\ task[r].pc = "transcribe"
  /\ Set(r, Throw([task[r] EXCEPT !.calls = MarkCall(@, FALSE, <<>>)],
                  "chunk", task[r].i + 1))
  /\ UNCHANGED <<fs, dirExists, now, planner, client>>

\* route.ts:136-146, 119-125   writer.write resolves; next iteration (or the end
\* of the loop)
WriteOk(r) ==
  /\ task[r].pc = "write"
  /\ task[r].writer = "open"
  /\ Set(r, LoopTop([task[r] EXCEPT !.out = Append(@, task[r].pending),
                                    !.pending = NoRecord,
                                    !.i = @ + 1], fs))
  /\ UNCHANGED <<fs, dirExists, now, planner, client>>

\* route.ts:136, 147-152   writer.write rejects (the readable side was cancelled)
WriteFail(r) ==
  /\ task[r].pc = "write"
  /\ task[r].writer = "errored"
  /\ Set(r, Throw([task[r] EXCEPT !.pending = NoRecord], "chunk", task[r].i + 1))
  /\ UNCHANGED <<fs, dirExists, now, planner, client>>

\* route.ts:157   await writer.close() resolves
CloseOk(r) ==
  /\ task[r].pc = "close"
  /\ task[r].writer = "open"
  /\ Set(r, [task[r] EXCEPT !.pc = "finally", !.writer = "closed", !.closes = @ + 1])
  /\ UNCHANGED <<fs, dirExists, now, planner, client>>

\* route.ts:157-158   await writer.close() rejects
CloseFail(r) ==
  /\ task[r].pc = "close"
  /\ task[r].writer = "errored"
  /\ Set(r, Throw([task[r] EXCEPT !.closes = @ + 1], "close", 0))
  /\ UNCHANGED <<fs, dirExists, now, planner, client>>

\* route.ts:159-161   the catch writes the error record; a rejected write leaves
\* the catch by exception, so processAudio's promise rejects after the finally
CatchWrite(r) ==
  /\ task[r].pc = "catch"
  /\ Set(r, IF task[r].writer = "open"
            THEN [task[r] EXCEPT !.pc = "catchClose",
                                 !.out = Append(@, ErrorRecord(task[r].error))]
            ELSE [task[r] EXCEPT !.pc = "finally", !.rejected = TRUE,
                                 !.wroteAfterClose = task[r].closes > 0])
  /\ UNCHANGED <<fs, dirExists, now, planner, client>>

\* route.ts:162   await writer.close() in the catch
CatchClose(r) ==
  /\ task[r].pc = "catchClose"
  /\ Set(r, IF task[r].writer = "open"
            THEN [task[r] EXCEPT !.pc = "finally", !.writer = "closed",
                                 !.closes = @ + 1]
            ELSE [task[r] EXCEPT !.pc = "finally", !.rejected = TRUE,
                                 !.closes = @ + 1])
  /\ UNCHANGED <<fs, dirExists, now, planner, client>>

\* route.ts:163-165   the finally begins: unlink of the source file
CleanupSource(r) ==
  /\ task[r].pc = "finally"
  /\ fs' = IF task[r].audioFilePath # NoPath THEN Unlink(fs, task[r].audioFilePath)
           ELSE fs
  /\ Set(r, [task[r] EXCEPT !.pc = "readdir", !.cleanups = @ + 1])
  /\ UNCHANGED <<dirExists, now, planner, client>>

\* route.ts:167-170   readdir of the temp dir (rejects when it does not exist)
CleanupReaddir(r) ==
  /\ task[r].pc = "readdir"
  /\ Set(r, IF ~dirExists
            THEN [task[r] EXCEPT !.pc = "done", !.rejected = TRUE]
            ELSE LET found == {f \in DOMAIN fs : IsChunkFile(f)} IN
                 IF found = {}
                 THEN [task[r] EXCEPT !.pc = "done", !.cleaned = TRUE]
                 ELSE [task[r] EXCEPT !.pc = "unlinkChunks", !.files = found])
  /\ UNCHANGED <<fs, dirExists, now, planner, client>>

\* route.ts:169-173   one unlink of the loop over the listed chunk files
CleanupChunk(r) ==
  /\ task[r].pc = "unlinkChunks"
  /\ \E f \in task[r].files :
       /\ fs' = Unlink(fs, f)
       /\ Set(r, IF task[r].files = {f}
                 THEN [task[r] EXCEPT !.pc = "done", !.files = {}, !.cleaned = TRUE]
                 ELSE [task[r] EXCEPT !.files = @ \ {f}])
  /\ UNCHANGED <<dirExists, now, planner, client>>

\* ---------------------------------------------------------- environment
\* req.signal fires (route.ts:120 reads req.signal.aborted)
Abort(r) ==
  /\ task[r].pc \notin {"idle", "done"}
  /\ ~task[r].aborted
  /\ Set(r, [task[r] EXCEPT
               !.aborted = TRUE,
               \* history: k when the signal fires between the completion of chunk
               \* k's call and the start of iteration k+1 (the write of record k
               \* is the only await in between), else 0
               !.abortedAfter = IF task[r].pc = "write" THEN Len(task[r].calls) ELSE 0,
               \* history: i when the signal fires while the call of chunk i is in
               \* flight, else 0
               !.abortedDuring = IF task[r].pc = "transcribe" THEN Len(task[r].calls)
                                 ELSE 0])
  /\ UNCHANGED <<fs, dirExists, now, planner, client>>

\* the consumer cancels stream.readable: later writes and closes reject
Disconnect(r) ==
  /\ task[r].writer = "open"
  /\ Set(r, [task[r] EXCEPT !.writer = "errored"])
  /\ UNCHANGED <<fs, dirExists, now, planner, client>>

\* Date.now() advances
Tick ==
  /\ now < MaxNow
  /\ now' = now + 1
  /\ UNCHANGED <<task, fs, dirExists, planner, client>>

Handler(r, Forms) ==
  \/ POST(r)
  \/ ReadFormData(r, Forms)
  \/ FormDataFail(r)
  \/ SaveInput(r)
  \/ SaveInputFail(r)
  \/ Probe(r)
  \/ splitAudioIntoChunks(r)
  \/ \E k \in 1..MaxChunks : ExtractOpen(r, k)
  \/ \E k \in 1..MaxChunks : ExtractEnd(r, k)
  \/ \E k \in 1..MaxChunks : ExtractError(r, k)
  \/ SplitResolve(r)
  \/ SplitReject(r)
  \/ TranscribeOk(r, Texts)
  \/ TranscribeFail(r)
  \/ WriteOk(r)
  \/ WriteFail(r)
  \/ CloseOk(r)
  \/ CloseFail(r)
  \/ CatchWrite(r)
  \/ CatchClose(r)
  \/ CleanupSource(r)
  \/ CleanupReaddir(r)
  \/ CleanupChunk(r)
  \/ Abort(r)
  \/ Disconnect(r)

\* one request at a time; the extension of the upload's name only matters when
\* two requests share the directory, its size and the kind of url only to the
\* handler of part_001
SoloForms == {f \in AllForms : f.ext = "mp3" /\ f.size = MAX_FILE_SIZE /\ f.youtube}

Next == Handler(1, SoloForms)

Spec == Init /\ [][Next]_vars


\* two requests handled at the same time, each an upload that is accepted and
\* split; only the outcomes that need no outside failure, and one returned text
ConcForms ==
  {f \in AllForms :
     /\ f.file /\ ~f.url /\ f.apiKey /\ f.youtube
     /\ f.size = MAX_FILE_SIZE
     /\ f.media.ok
     /\ f.media.duration \in {chunkDuration, chunkDuration + 1}}

ConcHandler(r) ==
  \/ POST(r)
  \/ ReadFormData(r, ConcForms)
  \/ SaveInput(r)
  \/ Probe(r)
  \/ splitAudioIntoChunks(r)
  \/ \E k \in 1..MaxChunks : ExtractOpen(r, k)
  \/ \E k \in 1..MaxChunks : ExtractEnd(r, k)
  \/ SplitResolve(r)
  \/ TranscribeOk(r, {<<"a">>})
  \/ TranscribeFail(r)
  \/ WriteOk(r)
  \/ CloseOk(r)
  \/ CatchWrite(r)
  \/ CatchClose(r)
  \/ CleanupSource(r)
  \/ CleanupReaddir(r)
  \/ CleanupChunk(r)

NextConc == ConcHandler(1) \/ ConcHandler(2) \/ Tick

SpecConc == Init /\ [][NextConc]_vars

\* one accepted upload whose extractions may fail or end with an empty output
ExtractHandler(r) ==
  \/ POST(r)
  \/ ReadFormData(r, ConcForms)
  \/ SaveInput(r)
  \/ Probe(r)
  \/ splitAudioIntoChunks(r)
  \/ \E k \in 1..MaxChunks : ExtractOpen(r, k)
  \/ \E k \in 1..MaxChunks : ExtractEnd(r, k)
  \/ \E k \in 1..MaxChunks : ExtractEndEmpty(r, k)
  \/ \E k \in 1..MaxChunks : ExtractError(r, k)
  \/ SplitResolve(r)
  \/ SplitReject(r)
  \/ TranscribeOk(r, Texts)
  \/ TranscribeFail(r)
  \/ WriteOk(r)
  \/ CloseOk(r)
  \/ CatchWrite(r)
  \/ CatchClose(r)
  \/ CleanupSource(r)
  \/ CleanupReaddir(r)
  \/ CleanupChunk(r)

NextExtract == ExtractHandler(1)

SpecExtract == Init /\ [][NextExtract]_vars

\* ------------------------------ route.ts:74-75, 179: the stream under back-pressure
\* new TransformStream() has a readable side with high-water mark 0: a record
\* passes through, and its writer.write resolves, only once the consumer has
\* asked for more records (reads) than it has been given
Demanded(t) == t.reads > Len(t.out)

\* a consumer that asks for the first record only
PullBad(r) ==
  /\ task[r].writer = "open"
  /\ task[r].reads = 0
  /\ Set(r, [task[r] EXCEPT !.reads = @ + 1])
  /\ UNCHANGED <<fs, dirExists, now, planner, client>>

\* route.ts:179   the consumer of stream.readable asks for the next record
Pull(r) ==
  /\ task[r].writer = "open"
  /\ ~Demanded(task[r])
  /\ Set(r, [task[r] EXCEPT !.reads = @ + 1])
  /\ UNCHANGED <<fs, dirExists, now, planner, client>>

\* route.ts:136   the write of a progress record, suspended until it is asked for
WriteWhenDemanded(r) ==
  /\ Demanded(task[r])
  /\ WriteOk(r)

\* route.ts:161   the write of the error record, suspended until it is asked for
CatchWriteWhenDemanded(r) ==
  /\ task[r].writer = "open" => Demanded(task[r])
  /\ CatchWrite(r)

\* one accepted upload, a consumer that keeps reading and never cancels
LiveHandler(r) ==
  \/ POST(r)
  \/ ReadFormData(r, ConcForms)
  \/ FormDataFail(r)
  \/ SaveInput(r)
  \/ SaveInputFail(r)
  \/ Probe(r)
  \/ splitAudioIntoChunks(r)
  \/ \E k \in 1..MaxChunks : ExtractOpen(r, k)
  \/ \E k \in 1..MaxChunks : ExtractEnd(r, k)
  \/ \E k \in 1..MaxChunks : ExtractError(r, k)
  \/ SplitResolve(r)
  \/ SplitReject(r)
  \/ TranscribeOk(r, {<<"a">>})
  \/ TranscribeFail(r)
  \/ WriteWhenDemanded(r)
  \/ CloseOk(r)
  \/ CatchWriteWhenDemanded(r)
  \/ CatchClose(r)
  \/ CleanupSource(r)
  \/ CleanupReaddir(r)
  \/ CleanupChunk(r)
  \/ Abort(r)

NextLive == LiveHandler(1) \/ Pull(1)

\* every awaited call settles and its continuation runs; the consumer keeps asking
SpecLive ==
  /\ Init
  /\ [][NextLive]_vars
  /\ WF_vars(LiveHandler(1))
  /\ WF_vars(Pull(1))

\* --------------------------- part_001:1-154: the segment-based POST / processAudio
\* part_001:32   -segment_time 300
segmentTime == 300 * TicksPerSecond

\* part_001:34   `${outputPrefix}%03d.mp3`
SegmentName(index) == [kind |-> "segment", id |-> index, ext |-> "mp3"]

\* part_001:39   file.startsWith('chunk') && file.endsWith('.mp3')
IsSegmentFile(name) == name.kind \in {"segment", "chunk"} /\ name.ext = "mp3"

\* a throw inside the try of part_001:74-141: control goes to its catch
YtdlThrow(t, kind) == [t EXCEPT !.pc = "ycatch", !.error = Err(kind, 0)]

\* part_001:109-118 and 132: the loop condition, the cancellation check and the
\* call of iteration t.i; after the loop the temp files are unlinked
YtdlLoopTop(t, dir) ==
  IF t.i < Len(t.chunks)
  THEN IF t.aborted THEN YtdlThrow(t, "cancelled")
       ELSE [StartCall(t, dir) EXCEPT !.pc = "ytranscribe"]
  ELSE [t EXCEPT !.pc = "ycleanup"]

\* part_001:68-73, 149-153
YtdlPOST(r) ==
  /\ task[r].pc = "idle"
  /\ Set(r, [task[r] EXCEPT !.pc = "yformData", !.writer = "open"])
  /\ UNCHANGED <<fs, dirExists, now, planner, client>>

\* part_001:75-84
YtdlReadFormData(r, Forms) ==
  /\ task[r].pc = "yformData"
  /\ \E f \in Forms :
       LET t == [task[r] EXCEPT !.form = f] IN
       Set(r, IF (~f.file /\ ~f.url) \/ ~f.apiKey
              THEN YtdlThrow(t, "required")
              ELSE [t EXCEPT !.pc = "ysaveInput"])
  /\ UNCHANGED <<fs, dirExists, now, planner, client>>

\* part_001:87-95, 50-61   the upload, or the audio ytdl fetched, is in the temp dir
YtdlSaveInput(r) ==
  /\ task[r].pc = "ysaveInput"
  /\ LET f == task[r].form
         name == InputName(now, IF f.file THEN f.ext ELSE "mp3")
     IN /\ f.file \/ f.youtube
        /\ fs' = WriteFile(fs, name, [owner |-> r, ok |-> f.media.ok,
                                      duration |-> f.media.duration, start |-> 0])
        /\ Set(r, [task[r] EXCEPT !.pc = "ystat", !.audioFilePath = name])
  /\ dirExists' = TRUE
  /\ UNCHANGED <<now, planner, client>>

\* part_001:62-65   'Unsupported URL type'; or the write or the download fails
YtdlSaveInputFail(r) ==
  /\ task[r].pc = "ysaveInput"
  /\ Set(r, YtdlThrow(task[r], "save"))
  /\ dirExists' = (dirExists \/ ~task[r].form.file)
  /\ UNCHANGED <<fs, now, planner, client>>

\* part_001:100-106, 23-34   stat; a file over MAX_FILE_SIZE is given to ffmpeg,
\* a smaller one is the only chunk
YtdlStat(r) ==
  /\ task[r].pc = "ystat"
  /\ Set(r, IF task[r].form.size > MAX_FILE_SIZE
            THEN [task[r] EXCEPT !.pc = "ysplit"]
            ELSE YtdlLoopTop([task[r] EXCEPT !.chunks = <<task[r].audioFilePath>>,
                                             !.i = 0], fs))
  /\ UNCHANGED <<fs, dirExists, now, planner, client>>

\* part_001:35-44, 103, 109-118   ffmpeg ends: the segments are on disk and every
\* chunk*.mp3 of the directory is a chunk (taken here in name order)
splitAudio(r) ==
  /\ task[r].pc = "ysplit"
  /\ task[r].form.media.ok
  /\ task[r].form.media.duration > 0
  /\ LET n == Ceil(task[r].form.media.duration, segmentTime)
         dir == [x \in (DOMAIN fs) \cup {SegmentName(k - 1) : k \in 1..n} |->
                   IF x \in {SegmentName(k - 1) : k \in 1..n}
                   THEN [owner |-> r, ok |-> TRUE,
                         duration |-> Min(segmentTime,
                                          task[r].form.media.duration - x.id * segmentTime),
                         start |-> x.id * segmentTime]
                   ELSE fs[x]]
         listed == {x \in DOMAIN dir : IsSegmentFile(x)}
     IN /\ fs' = dir
        /\ Cardinality(listed) = n
        /\ Set(r, YtdlLoopTop([task[r] EXCEPT
                                 !.chunks = [k \in 1..n |-> SegmentName(k - 1)],
                                 !.i = 0], dir))
  /\ UNCHANGED <<dirExists, now, planner, client>>

\* part_001:45   ffmpeg 'error'
splitAudioFail(r) ==
  /\ task[r].pc = "ysplit"
  /\ Set(r, YtdlThrow(task[r], "extract"))
  /\ UNCHANGED <<fs, dirExists, now, planner, client>>

\* part_001:115-129   the call resolves; the record is built and written
YtdlTranscribeOk(r) ==
  /\ task[r].pc = "ytranscribe"
  /\ task[r].calls[Len(task[r].calls)].src # NoReq
  /\ \E text \in Texts :
       LET t == task[r]
           full == t.fullTranscription \o text \o <<" ">>
       IN Set(r, [t EXCEPT
                    !.pc = "ywrite",
                    !.calls = MarkCall(@, TRUE, text),
                    !.fullTranscription = full,
                    !.pending = [ProgressRecord(progressOf(t.i, Len(t.chunks)),
                                                Trim(full), <<>>,
                                                t.i + 1, Len(t.chunks))
                                   EXCEPT !.chunkTranscription = <<>>]])
  /\ UNCHANGED <<fs, dirExists, now, planner, client>>

\* part_001:115, 141   the call rejects: straight to the catch
YtdlTranscribeFail(r) ==
  /\ task[r].pc = "ytranscribe"
  /\ Set(r, YtdlThrow([task[r] EXCEPT !.calls = MarkCall(@, FALSE, <<>>)], "api"))
  /\ UNCHANGED <<fs, dirExists, now, planner, client>>

\* part_001:122-130
YtdlWriteOk(r) ==
  /\ task[r].pc = "ywrite"
  /\ task[r].writer = "open"
  /\ Set(r, YtdlLoopTop([task[r] EXCEPT !.out = Append(@, task[r].pending),
                                        !.pending = NoRecord,
                                        !.i = @ + 1], fs))
  /\ UNCHANGED <<fs, dirExists, now, planner, client>>

\* part_001:122, 141
YtdlWriteFail(r) ==
  /\ task[r].pc = "ywrite"
  /\ task[r].writer = "errored"
  /\ Set(r, YtdlThrow([task[r] EXCEPT !.pending = NoRecord], "write"))
  /\ UNCHANGED <<fs, dirExists, now, planner, client>>

\* part_001:132-138   the clean-up, inside the try: the source, then each chunk
\* that is not the source
YtdlCleanup(r) ==
  /\ task[r].pc = "ycleanup"
  /\ LET t == task[r]
         mine == {t.chunks[k] : k \in 1..Len(t.chunks)} \cup {t.audioFilePath}
     IN IF mine \subseteq DOMAIN fs
        THEN /\ fs' = [x \in (DOMAIN fs) \ mine |-> fs[x]]
             /\ Set(r, [t EXCEPT !.pc = "yclose", !.cleanups = @ + 1,
                                 !.cleaned = TRUE])
        ELSE /\ fs' = [x \in (DOMAIN fs) \ {t.audioFilePath} |-> fs[x]]
             /\ Set(r, [YtdlThrow(t, "unlink") EXCEPT !.cleanups = @ + 1])
  /\ UNCHANGED <<dirExists, now, planner, client>>

\* part_001:140
YtdlCloseOk(r) ==
  /\ task[r].pc = "yclose"
  /\ task[r].writer = "open"
  /\ Set(r, [task[r] EXCEPT !.pc = "done", !.writer = "closed"])
  /\ UNCHANGED <<fs, dirExists, now, planner, client>>

\* part_001:140-141
YtdlCloseFail(r) ==
  /\ task[r].pc = "yclose"
  /\ task[r].writer = "errored"
  /\ Set(r, YtdlThrow(task[r], "close"))
  /\ UNCHANGED <<fs, dirExists, now, planner, client>>

\* part_001:141-144   the catch writes the error record; nothing follows the catch
YtdlCatchWrite(r) ==
  /\ task[r].pc = "ycatch"
  /\ Set(r, IF task[r].writer = "open"
            THEN [task[r] EXCEPT !.pc = "ycatchClose",
                                 !.out = Append(@, ErrorRecord(task[r].error))]
            ELSE [task[r] EXCEPT !.pc = "done", !.rejected = TRUE])
  /\ UNCHANGED <<fs, dirExists, now, planner, client>>

\* part_001:145
YtdlCatchClose(r) ==
  /\ task[r].pc = "ycatchClose"
  /\ Set(r, IF task[r].writer = "open"
            THEN [task[r] EXCEPT !.pc = "done", !.writer = "closed"]
            ELSE [task[r] EXCEPT !.pc = "done", !.rejected = TRUE])
  /\ UNCHANGED <<fs, dirExists, now, planner, client>>

YtdlHandler(r, Forms) ==
  \/ YtdlPOST(r)
  \/ YtdlReadFormData(r, Forms)
  \/ YtdlSaveInput(r)
  \/ YtdlSaveInputFail(r)
  \/ YtdlStat(r)
  \/ splitAudio(r)
  \/ splitAudioFail(r)
  \/ YtdlTranscribeOk(r)
  \/ YtdlTranscribeFail(r)
  \/ YtdlWriteOk(r)
  \/ YtdlWriteFail(r)
  \/ YtdlCleanup(r)
  \/ YtdlCloseOk(r)
  \/ YtdlCloseFail(r)
  \/ YtdlCatchWrite(r)
  \/ YtdlCatchClose(r)
  \/ Abort(r)
  \/ Disconnect(r)

YtdlForms ==
  {f \in AllForms : f.ext = "mp3" /\ f.media.duration <= MaxChunks * segmentTime}

NextYtdl == YtdlHandler(1, YtdlForms)

SpecYtdl == Init /\ [][NextYtdl]_vars

\* ------------------------------------------------- the planners, run alone
\* totals around the chunk boundaries of the limit, and the shortest ones
Around(limit) ==
  {t \in 1..PlanSlack : TRUE}
    \cup {k * limit + d : k \in 1..MaxChunks, d \in (0 - PlanSlack)..PlanSlack}

InitPlanner ==
  /\ task = [r \in Reqs |-> InitTask]
  /\ fs = <<>>
  /\ dirExists = FALSE
  /\ now = 0
  /\ \E limit \in (1..(MaxChunks + 1)) \cup {chunkDuration, CHUNK_SIZE} :
       \E total \in {t \in Around(limit) : t > 0} :
         planner = [kind |-> "input", total |-> total, limit |-> limit, plan |-> <<>>]
  /\ client = InitClient

\* route.ts:20-26   the ranges splitAudioIntoChunks hands to splitChunk
PlanByDuration ==
  /\ planner.kind = "input"
  /\ planner.limit # CHUNK_SIZE
  /\ planner' = [planner EXCEPT
                   !.kind = "duration",
                   !.plan = [k \in 1..numberOfChunks(planner.total, planner.limit)
                               |-> splitChunk(k - 1, planner.limit, planner.total)]]
  /\ UNCHANGED <<task, fs, dirExists, now, client>>

\* next.config.mjs:60-65   the ranges of the size-based splitAudioIntoChunks
PlanBySize ==
  /\ planner.kind = "input"
  /\ planner.limit = CHUNK_SIZE
  /\ planner' = [planner EXCEPT
                   !.kind = "size",
                   !.plan = [k \in 1..Ceil(planner.total, planner.limit)
                               |-> sizeChunk(k - 1, planner.limit, planner.total)]]
  /\ UNCHANGED <<task, fs, dirExists, now, client>>

NextPlanner == PlanByDuration \/ PlanBySize

SpecPlanner == InitPlanner /\ [][NextPlanner]_vars

\* ============================================================== claims
IsProgress(x) == x.type = "progress"
IsError(x) == x.type = "error"
ProgressRecords(t) == SelectSeq(t.out, IsProgress)
ErrorRecords(t) == SelectSeq(t.out, IsError)

\* every planned chunk was sent to the API and every call returned a text
AllCallsOk(t) ==
  /\ Len(t.chunks) >= 1
  /\ Len(t.calls) = Len(t.chunks)
  /\ \A j \in 1..Len(t.calls) : t.calls[j].done /\ t.calls[j].ok

\* the progress records so far are numbered 1, 2, ... in order, carry the chunk
\* count, and their percentages stay in 0..100 and never decrease
ProgressInOrder(t) ==
  LET P == ProgressRecords(t) IN
  \A j \in 1..Len(P) :
    /\ P[j].current = j
    /\ P[j].total = Len(t.chunks)
    /\ P[j].progress \in 0..100
    /\ j > 1 => P[j - 1].progress <= P[j].progress

ExactlyAllProgress(t) ==
  LET P == ProgressRecords(t) IN
  /\ Len(P) = Len(t.chunks)
  /\ t.out = P
  /\ ProgressInOrder(t)
  /\ P[Len(P)].progress = 100

\* C1 as stated: a finished request whose n >= 1 transcription calls all
\* succeeded carries exactly n progress records, numbered 1..n in order, each
\* with total n, percentages non-decreasing within 0..100 and ending at 100.
C1_AsStated ==
  \A r \in Reqs :
    (task[r].pc = "done" /\ AllCallsOk(task[r])) => ExactlyAllProgress(task[r])

\* C1 amended: the progress records of a request are at every moment numbered
\* 1, 2, ... in order with total n and non-decreasing percentages within 0..100;
\* and a finished request whose n >= 1 transcription calls all succeeded and
\* whose stream the consumer did not cancel before it was closed carries exactly
\* n of them, the last with progress 100.
C1_ProgressOrdered ==
  \A r \in Reqs :
    /\ ProgressInOrder(task[r])
    /\ (task[r].pc = "done" /\ AllCallsOk(task[r]) /\ task[r].writer = "closed")
         => ExactlyAllProgress(task[r])

C1_Witness ==
  \E r \in Reqs :
    /\ task[r].pc = "done"
    /\ AllCallsOk(task[r])
    /\ task[r].writer = "closed"
    /\ Len(task[r].chunks) = MaxChunks
    /\ Len(task[r].out) = MaxChunks


\* the call of chunk k was the last one made, and it failed
LastCallFailed(t, k) ==
  /\ Len(t.calls) = k
  /\ k >= 1
  /\ t.calls[k].done
  /\ ~t.calls[k].ok

\* chunk j is called j-th, once, and only after every earlier call succeeded
CallsSequential(t) ==
  \A j \in 1..Len(t.calls) :
    /\ t.calls[j].chunk = j
    /\ j < Len(t.calls) => (t.calls[j].done /\ t.calls[j].ok)

\* the stream holds exactly m progress records, in order, then the one record e
ProgressThenError(t, m, e) ==
  LET P == ProgressRecords(t) IN
  /\ Len(P) = m
  /\ ProgressInOrder(t)
  /\ t.out = Append(P, ErrorRecord(e))

\* C2 as stated: when the call of chunk k fails after chunks 1..k-1 succeeded,
\* the stream of the finished request holds exactly k-1 progress records followed
\* by exactly one error record that references chunk k; chunk k is called once
\* and chunks k+1..n are never called.
C2_AsStated ==
  \A r \in Reqs : \A k \in 1..MaxChunks :
    /\ CallsSequential(task[r])
    /\ (task[r].pc = "done" /\ LastCallFailed(task[r], k))
         => ProgressThenError(task[r], k - 1, Err("chunk", k))

\* C2 amended: chunk k is called once and chunks k+1..n never; the stream holds
\* exactly the k-1 progress records, followed by exactly one terminal error
\* record referencing chunk k unless the consumer cancelled the stream before the
\* record could be written, in which case nothing follows the progress records.
C2_AbortOnFailure ==
  \A r \in Reqs : \A k \in 1..MaxChunks :
    /\ CallsSequential(task[r])
    /\ (task[r].pc = "done" /\ LastCallFailed(task[r], k))
         => /\ Len(ProgressRecords(task[r])) = k - 1
            /\ ProgressInOrder(task[r])
            /\ \/ ProgressThenError(task[r], k - 1, Err("chunk", k))
               \/ task[r].writer = "errored" /\ task[r].out = ProgressRecords(task[r])
            /\ task[r].writer = "closed"
                 => ProgressThenError(task[r], k - 1, Err("chunk", k))

C2_Witness ==
  \E r \in Reqs :
    /\ task[r].pc = "done"
    /\ Len(task[r].chunks) = MaxChunks
    /\ LastCallFailed(task[r], MaxChunks - 1)
    /\ task[r].writer = "closed"
    /\ Len(task[r].out) = MaxChunks - 1

\* the signal fired after chunk k's call returned and before iteration k+1 began
CancelledAfter(t, k) ==
  /\ t.abortedAfter = k
  /\ k >= 1
  /\ k < Len(t.chunks)

CancellationRecord == ErrorRecord(Err("cancelled", 0))

\* C3 as stated: when cancellation is signalled after chunk k completes and
\* before iteration k+1 begins (k < n), chunks k+1..n are never sent and the
\* stream of the finished request ends with a cancellation record, which is no
\* failure record; the run is not a success.
C3_AsStated ==
  \A r \in Reqs : \A k \in 1..MaxChunks :
    (task[r].pc = "done" /\ CancelledAfter(task[r], k))
      => /\ Len(task[r].calls) = k
         /\ task[r].error.kind # "none"
         /\ task[r].out # <<>>
         /\ task[r].out[Len(task[r].out)] = CancellationRecord

\* C3 amended: in that case chunks k+1..n are never sent and the run is not a
\* success; if the consumer has not cancelled the stream, the stream ends with
\* the k progress records followed by one cancellation record.  A cancellation
\* record is written only for a request whose signal fired, and it differs from
\* every record written for a failure.
C3_CancelStops ==
  \A r \in Reqs :
    /\ \A j \in 1..Len(task[r].out) :
         (IsError(task[r].out[j]) /\ task[r].out[j].error.kind = "cancelled")
           => (task[r].aborted /\ task[r].out[j] = CancellationRecord)
    /\ \A k \in 1..MaxChunks :
         (task[r].pc = "done" /\ CancelledAfter(task[r], k))
           => /\ Len(task[r].calls) = k
              /\ task[r].error.kind # "none"
              /\ task[r].writer = "closed"
                   => ProgressThenError(task[r], k, Err("cancelled", 0))

C3_Witness ==
  \E r \in Reqs :
    /\ task[r].pc = "done"
    /\ Len(task[r].chunks) = MaxChunks
    /\ CancelledAfter(task[r], MaxChunks - 2)
    /\ task[r].writer = "closed"
    /\ task[r].out[Len(task[r].out)] = CancellationRecord


RECURSIVE SumDurations(_)
SumDurations(p) ==
  IF p = <<>> THEN 0 ELSE Head(p).duration + SumDurations(Tail(p))

\* C8: for every total > 0 and limit > 0 the chunk lengths computed by
\* splitAudioIntoChunks + splitChunk sum exactly to total, every length is > 0,
\* and every length except possibly the last is <= limit.
C8_LengthsSumToTotal ==
  planner.kind = "duration" =>
    /\ SumDurations(planner.plan) = planner.total
    /\ \A k \in 1..Len(planner.plan) : planner.plan[k].duration > 0
    /\ \A k \in 1..(Len(planner.plan) - 1) : planner.plan[k].duration <= planner.limit

C8_Witness ==
  /\ planner.kind = "duration"
  /\ planner.limit = chunkDuration
  /\ Len(planner.plan) = MaxChunks
  /\ planner.plan[MaxChunks].duration < chunkDuration

\* C9 as stated: the chunk specs of a plan are contiguous and non-overlapping
\* and cover [0, total): chunk 0 starts at 0, each chunk starts exactly where
\* the one before it ends, and the last chunk ends at total; for the
\* duration-based planner (end = start + duration) and for the size-based one
\* (end as computed: min((index+1)*chunkSize, totalSize) - 1).
C9_Contiguous ==
  LET p == planner.plan
      EndOf(c) == IF planner.kind = "duration" THEN c.start + c.duration ELSE c.end
  IN planner.kind \in {"duration", "size"} =>
       /\ Len(p) >= 1
       /\ p[1].start = 0
       /\ \A k \in 1..(Len(p) - 1) : p[k + 1].start = EndOf(p[k])
       /\ EndOf(p[Len(p)]) = planner.total

\* the duration-based half of C9, which route.ts satisfies
DurationPlanContiguous ==
  planner.kind = "duration" => C9_Contiguous


\* C4: Cleanup runs exactly once per request on every exit path of processAudio
\* (success, validation error, probe or extraction error, per-chunk
\* transcription error, cancellation): a finished request has run it once.
C4_CleanupOnce ==
  \A r \in Reqs : task[r].pc = "done" => task[r].cleanups = 1

\* ... which the handler of route.ts, whose clean-up is a finally, satisfies
RouteCleanupOnce ==
  \A r \in Reqs :
    /\ task[r].cleanups <= 1
    /\ task[r].pc \in {"readdir", "unlinkChunks", "done"} <=> task[r].cleanups = 1


\* C5: once a request's Cleanup has finished, neither its source temp file nor
\* any chunk file created for it exists in the temp directory, on every exit
\* path; in particular no chunk file of the request is written or left behind
\* after Cleanup when one extraction fails while the others are still running.
C5_NothingLeftBehind ==
  \A r \in Reqs :
    task[r].cleaned => \A f \in DOMAIN fs : fs[f].owner # r


\* the chunk files request o planned and has not finished transcribing
Needs(o, f) ==
  /\ o \in Reqs
  /\ task[o].pc \in {"splitWait", "transcribe", "write"}
  /\ \E k \in DOMAIN task[o].ex :
       /\ f = ChunkName(k - 1, task[o].audioFilePath.ext)
       /\ k > task[o].i

\* C6: each chunk file is owned exclusively by the request that created it: no
\* request transcribes a chunk file written by the other request, no request
\* overwrites the other's chunk file, and no Cleanup deletes a chunk file that
\* the other request has created and not yet finished transcribing.
C6_ExclusiveChunkFiles ==
  [][ /\ \A f \in DOMAIN fs :
           (IsChunkFile(f) /\ Needs(fs[f].owner, f))
             => (f \in DOMAIN fs' /\ fs'[f].owner = fs[f].owner)
      /\ \A r \in Reqs : \A j \in 1..Len(task'[r].calls) :
           task'[r].calls[j].src \in {r, NoReq} ]_vars

\* the temp-file names a request uses: its source file and its planned chunks
FileNames(r) ==
  ({task[r].audioFilePath} \ {NoPath})
    \cup {ChunkName(k - 1, task[r].audioFilePath.ext) : k \in DOMAIN task[r].ex}

\* C7: the sets of temp-file names used by two concurrent requests (input-<ts>.<ext>
\* and chunk_<index><ext>) are disjoint.
C7_DisjointNames ==
  \A r, q \in Reqs :
    (r # q /\ task[r].pc # "done" /\ task[q].pc # "done")
      => FileNames(r) \cap FileNames(q) = {}


\* what ffprobe reports for the request's input lies in (0, chunkDuration]
InputWithinLimit(t) ==
  /\ t.form.media.ok
  /\ 0 < t.form.media.duration
  /\ t.form.media.duration <= chunkDuration

\* splitAudioIntoChunks has computed the request's plan
Planned(t) == t.ex # <<>>

\* the stream holds one record: the progress record of chunk 1 of 1, at 100
OneProgressAt100(t) ==
  /\ Len(t.out) = 1
  /\ IsProgress(t.out[1])
  /\ t.out[1].progress = 100
  /\ t.out[1].current = 1
  /\ t.out[1].total = 1

\* C10 as stated: for every input with 0 < total <= chunkDuration the plan has
\* exactly one chunk and the request emits exactly one progress record, with
\* progress 100 (failures of the disk, ffmpeg, the API and the consumer aside).
C10_AsStated ==
  \A r \in Reqs :
    (/\ task[r].pc = "done"
     /\ task[r].writer = "closed"
     /\ InputWithinLimit(task[r])
     /\ task[r].error.kind \in {"none", "tooShort"})
      => (Len(task[r].ex) = 1 /\ OneProgressAt100(task[r]))

\* C10 amended: an input with 0.1 s <= total <= chunkDuration is planned as
\* exactly one chunk spanning it (start 0, length total), and a request for it
\* that finishes without failure or cancellation emits exactly one progress
\* record, with progress 100; an input with 0 < total < 0.1 s is never planned
\* and its request emits no progress record.
C10_SingleChunk ==
  \A r \in Reqs :
    LET t == task[r]
        total == t.form.media.duration
        name == ChunkName(0, t.audioFilePath.ext)
    IN InputWithinLimit(t) =>
         /\ TooShort(total) => (~Planned(t) /\ ProgressRecords(t) = <<>>)
         /\ Planned(t) =>
              /\ Len(t.ex) = 1
              /\ t.duration = total
              /\ splitChunk(0, chunkDuration, t.duration)
                   = [index |-> 0, start |-> 0, duration |-> total]
              /\ (Exists(fs, name) /\ fs[name].owner = r)
                   => (fs[name].start = 0 /\ fs[name].duration = total)
         /\ (~TooShort(total) /\ t.pc = "done" /\ t.writer = "closed"
               /\ t.error.kind = "none")
              => OneProgressAt100(t)

C10_Witness ==
  \E r \in Reqs :
    /\ task[r].pc = "done"
    /\ task[r].writer = "closed"
    /\ task[r].error.kind = "none"
    /\ task[r].form.media.duration = chunkDuration
    /\ Len(task[r].ex) = 1
    /\ OneProgressAt100(task[r])

\* the texts returned for chunks 1..i, with a single space between consecutive ones
RECURSIVE JoinTexts(_, _)
JoinTexts(calls, i) ==
  IF i = 0 THEN <<>>
  ELSE IF i = 1 THEN calls[1].text
  ELSE JoinTexts(calls, i - 1) \o <<" ">> \o calls[i].text

IsPrefix(a, b) == Len(a) <= Len(b) /\ SubSeq(b, 1, Len(a)) = a

\* what every progress record carries besides its cumulative text
RecordOfChunk(t, P, j) ==
  /\ P[j].chunkTranscription = Trim(t.calls[j].text)
  /\ P[j].progress = Round(100 * j, Len(t.chunks))
  /\ \A m \in j..Len(P) : IsPrefix(P[j].transcription, P[m].transcription)

\* C11 as stated: in every progress record i, transcription is the texts
\* returned for chunks 1..i joined by single spaces, chunkTranscription is the
\* trimmed text of chunk i, progress is round(100*i/total), and transcription is
\* a prefix of that of every later record.
C11_AsStated ==
  \A r \in Reqs :
    LET P == ProgressRecords(task[r]) IN
    \A j \in 1..Len(P) :
      /\ P[j].transcription = JoinTexts(task[r].calls, j)
      /\ RecordOfChunk(task[r], P, j)

\* C11 amended: transcription is that joined text with leading and trailing
\* white space removed; the rest as stated.
C11_CumulativeText ==
  \A r \in Reqs :
    LET P == ProgressRecords(task[r]) IN
    \A j \in 1..Len(P) :
      /\ P[j].transcription = Trim(JoinTexts(task[r].calls, j))
      /\ RecordOfChunk(task[r], P, j)

C11_Witness ==
  \E r \in Reqs :
    LET P == ProgressRecords(task[r]) IN
    /\ task[r].pc = "done"
    /\ Len(P) = MaxChunks
    /\ task[r].calls[1].text = <<" ", "b">>
    /\ task[r].calls[2].text = <<" ", "b">>
    /\ P[2].transcription = <<"b", " ", " ", "b">>


\* the stream holds at most one error record, and nothing after it
ErrorRecordTerminal(t) ==
  /\ Len(ErrorRecords(t)) <= 1
  /\ \A j \in 1..Len(t.out) : IsError(t.out[j]) => j = Len(t.out)

\* the error thrown inside the try, if any, is the last record of the stream
ThrownErrorSurfaced(t) ==
  t.error.kind # "none"
    => (t.out # <<>> /\ t.out[Len(t.out)] = ErrorRecord(t.error))

\* C12 as stated: the stream of a request holds at most one error record, which
\* is the last record written, and every error of the request, those raised
\* while closing the stream or during Cleanup included, is surfaced in it: for a
\* consumer that stays connected, the error thrown in the try is the terminal
\* record and no error leaves processAudio without a record.
C12_AsStated ==
  \A r \in Reqs :
    /\ ErrorRecordTerminal(task[r])
    /\ (task[r].pc = "done" /\ task[r].writer # "errored")
         => (ThrownErrorSurfaced(task[r]) /\ ~task[r].rejected)

\* ... of which the part about the errors thrown inside the try holds
TryErrorsSurfaced ==
  \A r \in Reqs :
    /\ ErrorRecordTerminal(task[r])
    /\ (task[r].pc = "done" /\ task[r].writer # "errored")
         => ThrownErrorSurfaced(task[r])


\* C13 as stated: every record written to the output stream, progress records
\* and the terminal error record alike, is one JSON-serialized object terminated
\* by a newline.
C13_AsStated ==
  \A r \in Reqs : \A j \in 1..Len(task[r].out) :
    /\ IsProgress(task[r].out[j]) \/ IsError(task[r].out[j])
    /\ task[r].out[j].newline

\* ... which holds of the progress records
ProgressRecordsTerminated ==
  \A r \in Reqs : \A j \in 1..Len(task[r].out) :
    /\ IsProgress(task[r].out[j]) \/ IsError(task[r].out[j])
    /\ IsProgress(task[r].out[j]) => task[r].out[j].newline


\* req.formData() has resolved for the request
FormRead(t) == t.pc \notin {"idle", "formData"} /\ t.error.kind # "formData"

\* the form lacks both file and url, or lacks apiKey
LacksInput(t) == (~t.form.file /\ ~t.form.url) \/ ~t.form.apiKey

\* nothing of the pipeline has run for request r
NoPipelineWork(r) ==
  /\ task[r].error = Err("required", 0)
  /\ task[r].audioFilePath = NoPath
  /\ \A f \in DOMAIN fs : fs[f].owner # r
  /\ task[r].ex = <<>>
  /\ task[r].chunks = <<>>
  /\ task[r].calls = <<>>
  /\ ProgressRecords(task[r]) = <<>>

\* C14 as stated: when a request lacks both file and url, or lacks apiKey, no
\* pipeline work is started (no temp file, download, probe, extraction or
\* transcription call) and the failure is reported in-band as an error record.
C14_AsStated ==
  \A r \in Reqs :
    (FormRead(task[r]) /\ LacksInput(task[r]))
      => /\ NoPipelineWork(r)
         /\ task[r].pc = "done"
              => task[r].out = <<ErrorRecord(Err("required", 0))>>

\* C14 amended: no pipeline work is started, and the failure is reported in-band
\* as the only record of the stream unless the consumer cancelled the stream
\* before the record could be written, in which case the stream stays empty.
C14_ValidationFirst ==
  \A r \in Reqs :
    (FormRead(task[r]) /\ LacksInput(task[r]))
      => /\ NoPipelineWork(r)
         /\ task[r].pc = "done"
              => \/ task[r].out = <<ErrorRecord(Err("required", 0))>>
                 \/ task[r].writer = "errored" /\ task[r].out = <<>>
         /\ (task[r].pc = "done" /\ task[r].writer = "closed")
              => task[r].out = <<ErrorRecord(Err("required", 0))>>

C14_Witness ==
  \E r \in Reqs :
    /\ task[r].pc = "done"
    /\ task[r].form.file
    /\ ~task[r].form.apiKey
    /\ task[r].writer = "closed"
    /\ task[r].out = <<ErrorRecord(Err("required", 0))>>
    /\ NoPipelineWork(r)


\* the extraction of chunk k of the request failed: ffmpeg exited non-zero, or
\* ended with a zero-byte output
ExtractionFailed(t, k) == k \in DOMAIN t.ex /\ t.ex[k] \in {"error", "empty"}

\* the request was aborted with a terminal error record and chunk k was neither
\* sent to the API nor reported
AbortedWithout(t, k) ==
  /\ \A j \in 1..Len(t.calls) : t.calls[j].chunk # k
  /\ \A j \in 1..Len(t.out) : IsProgress(t.out[j]) => t.out[j].current # k
  /\ t.pc \notin {"transcribe", "write", "close"}
  /\ (t.pc = "done" /\ t.writer = "closed")
       => (t.out # <<>> /\ IsError(t.out[Len(t.out)]))

\* C15 as stated: extraction of a chunk is a failure whenever the media tool
\* exits non-zero or writes a zero-byte output file; in either case the request
\* is aborted with a terminal error record, the chunk is never sent to the
\* transcription API and no transcript is reported for it.
C15_AsStated ==
  \A r \in Reqs : \A k \in 1..MaxChunks :
    ExtractionFailed(task[r], k) => AbortedWithout(task[r], k)

\* ... which holds when the tool exits non-zero
NonZeroExitAborts ==
  \A r \in Reqs : \A k \in 1..MaxChunks :
    (k \in DOMAIN task[r].ex /\ task[r].ex[k] = "error")
      => AbortedWithout(task[r], k)


\* the probe of the request's input reports a duration of 0, or none at all
DegenerateTotal(t) ==
  /\ FormRead(t)
  /\ t.form.media.ok
  /\ t.form.media.duration \in {0, Unknown}

\* no chunk has been planned, extracted or transcribed for request r
NothingPlanned(r) ==
  /\ task[r].ex = <<>>
  /\ task[r].chunks = <<>>
  /\ task[r].calls = <<>>
  /\ \A f \in DOMAIN fs : IsChunkFile(f) => fs[f].owner # r

\* C16: when the probed total is 0 or unknown the request fails with an error
\* before any chunk is planned or extracted; a plan with zero chunks or with a
\* zero-length chunk is never produced, and no run is reported as a success
\* with no progress records.
C16_DegenerateRejected ==
  \A r \in Reqs :
    LET t == task[r] IN
    /\ DegenerateTotal(t) =>
         /\ NothingPlanned(r)
         /\ t.pc \notin {"split", "splitWait", "transcribe", "write", "close"}
         /\ t.pc = "done" => t.error.kind \in {"required", "save", "tooShort"}
         /\ (t.pc = "done" /\ t.writer = "closed")
              => t.out = <<ErrorRecord(t.error)>>
    /\ t.pc \in {"splitWait", "transcribe", "write", "close"} => Planned(t)
    /\ \A k \in DOMAIN t.ex :
         splitChunk(k - 1, chunkDuration, t.duration).duration > 0
    /\ (t.pc = "done" /\ t.error.kind = "none") => ProgressRecords(t) # <<>>

C16_Witness ==
  \E r \in Reqs :
    /\ task[r].pc = "done"
    /\ task[r].form.media.ok
    /\ task[r].form.media.duration = Unknown
    /\ task[r].writer = "closed"
    /\ task[r].out = <<ErrorRecord(Err("tooShort", 0))>>
    /\ NothingPlanned(r)


\* the finally of the request began and was left by an exception
CleanupRaised(t) == t.pc = "done" /\ t.cleanups >= 1 /\ ~t.cleaned

\* C17 as stated: Cleanup never raises: not on a deletion failure, not when the
\* source and chunk files are already removed, and not when it runs on an exit
\* path taken before the temp directory was created.
C17_AsStated ==
  \A r \in Reqs : ~CleanupRaised(task[r])

\* ... which holds whenever the temp directory exists when Cleanup lists it
CleanupQuietInExistingDir ==
  \A r \in Reqs : CleanupRaised(task[r]) => ~dirExists


\* the calls of the request that have not returned yet
InFlight(t) == {j \in 1..Len(t.calls) : ~t.calls[j].done}

\* C18: within one request at most one transcription call is in flight at any
\* time: the call for chunk i+1 is started only after the call for chunk i has
\* returned and its progress record has been written to the stream.
C18_OneCallInFlight ==
  \A r \in Reqs :
    LET t == task[r]
        P == ProgressRecords(t)
    IN /\ Cardinality(InFlight(t)) <= 1
       /\ InFlight(t) \subseteq {Len(t.calls)}
       /\ InFlight(t) # {} <=> t.pc = "transcribe"
       /\ \A j \in 1..(Len(t.calls) - 1) :
            /\ t.calls[j].done /\ t.calls[j].ok
            /\ t.calls[j].chunk = j /\ t.calls[j + 1].chunk = j + 1
            /\ Len(P) >= j
            /\ P[j].current = j
            /\ P[j].chunkTranscription = Trim(t.calls[j].text)

C18_Witness ==
  \E r \in Reqs :
    /\ task[r].pc = "transcribe"
    /\ Len(task[r].calls) = MaxChunks
    /\ InFlight(task[r]) = {MaxChunks}
    /\ Len(ProgressRecords(task[r])) = MaxChunks - 1


\* the signal fired while the call of chunk i was in flight
CancelledDuring(t, i) == t.abortedDuring = i /\ i >= 1

\* no chunk after i is dispatched, the call of chunk i returns on its own before
\* the loop goes on, and the finally runs
CancelWaitsForCall(t, i) ==
  /\ Len(t.calls) = i
  /\ t.pc # "transcribe" => t.calls[i].done
  /\ t.pc = "done" => t.cleanups = 1
  /\ (t.pc = "done" /\ t.calls[i].ok /\ i < Len(t.chunks))
       => t.error.kind \in {"cancelled", "chunk"}

\* C19 as stated: when cancellation is signalled while the call of chunk i is in
\* flight, that call still completes or fails on its own, on success its
\* progress record is still written, no chunk after i is dispatched, and
\* Cleanup still runs.
C19_AsStated ==
  \A r \in Reqs : \A i \in 1..MaxChunks :
    CancelledDuring(task[r], i)
      => /\ CancelWaitsForCall(task[r], i)
         /\ (task[r].pc = "done" /\ task[r].calls[i].ok)
              => Len(ProgressRecords(task[r])) = i

\* C19 amended: as stated, except that on success the progress record of chunk
\* i is written only if the consumer has not cancelled the stream; written, it
\* is followed by the cancellation record when i < n and by nothing when i = n.
C19_CancelAtLoopTop ==
  \A r \in Reqs : \A i \in 1..MaxChunks :
    LET t == task[r] IN
    CancelledDuring(t, i)
      => /\ CancelWaitsForCall(t, i)
         /\ (t.pc = "done" /\ t.calls[i].ok)
              => \/ Len(ProgressRecords(t)) = i
                 \/ t.writer = "errored" /\ Len(ProgressRecords(t)) = i - 1
         /\ (t.pc = "done" /\ t.calls[i].ok /\ t.writer = "closed")
              => IF i < Len(t.chunks)
                 THEN ProgressThenError(t, i, Err("cancelled", 0))
                 ELSE ExactlyAllProgress(t)

C19_Witness ==
  \E r \in Reqs :
    /\ task[r].pc = "done"
    /\ Len(task[r].chunks) = MaxChunks
    /\ CancelledDuring(task[r], MaxChunks - 1)
    /\ task[r].calls[MaxChunks - 1].ok
    /\ task[r].writer = "closed"
    /\ ProgressThenError(task[r], MaxChunks - 1, Err("cancelled", 0))
    /\ task[r].cleanups = 1


\* the stream is closed and the finally has run to its end (by the exception of
\* readdir when the temp directory does not exist)
RequestEnded(t) ==
  /\ t.pc = "done"
  /\ t.writer = "closed"
  /\ t.cleanups = 1
  /\ t.cleaned \/ ~dirExists

\* C20: writing records never deadlocks against chunk processing: a write may
\* suspend until the consumer asks for the record, but when every external call
\* returns and the consumer reads each written record the request eventually
\* reaches its end, the stream closed and Cleanup over.
C20_NoDeadlock ==
  <>[]RequestEnded(task[1])

C20_Witness ==
  /\ RequestEnded(task[1])
  /\ Len(ProgressRecords(task[1])) = 2
  /\ task[1].reads >= 2
  /\ task[1].error.kind = "none"


\* the request was refused by the validation of its form, before any work
RefusedByValidation(r) ==
  /\ task[r].error = Err("required", 0)
  /\ task[r].pc \in {"catch", "catchClose", "finally", "readdir", "unlinkChunks", "done"}
  /\ task[r].audioFilePath = NoPath
  /\ task[r].calls = <<>>

\* C21 as stated: a request is accepted for processing only when exactly one of
\* file and url is present; a request that supplies both is rejected with a
\* validation error rather than processed.
C21_AsStated ==
  \A r \in Reqs :
    (FormRead(task[r]) /\ (task[r].form.file <=> task[r].form.url))
      => RefusedByValidation(r)

\* ... of which the part about a request with neither field holds
NeitherFieldRefused ==
  \A r \in Reqs :
    (FormRead(task[r]) /\ ~task[r].form.file /\ ~task[r].form.url)
      => RefusedByValidation(r)


\* ffmpeg emitted 'end' for every planned chunk of the request
AllExtractionsEnded(t) ==
  /\ Planned(t)
  /\ \A k \in DOMAIN t.ex : t.ex[k] \in {"end", "empty"}

\* C22: no transcription call of a request is started before the extraction of
\* every planned chunk of that request has completed successfully; hence a
\* request in which any extraction fails emits no progress record.
C22_ExtractBeforeTranscribe ==
  \A r \in Reqs :
    LET t == task[r] IN
    /\ (t.calls # <<>> \/ t.pc \in {"transcribe", "write", "close"} \/ t.chunks # <<>>)
         => (AllExtractionsEnded(t) /\ Len(t.chunks) = Len(t.ex))
    /\ (\E k \in DOMAIN t.ex : t.ex[k] = "error")
         => (t.calls = <<>> /\ ProgressRecords(t) = <<>>)

C22_Witness ==
  \E r \in Reqs :
    /\ task[r].pc = "done"
    /\ Len(task[r].ex) = MaxChunks
    /\ task[r].ex[1] = "end"
    /\ task[r].ex[MaxChunks] = "error"
    /\ task[r].calls = <<>>
    /\ task[r].out = <<ErrorRecord(Err("extract", 0))>>


\* writer.close() was called once for the request, and no writer.write after it
ClosedOnce(t) == t.closes = 1 /\ ~t.wroteAfterClose

\* C23 as stated: on every exit path of processAudio the writer is closed
\* exactly once and nothing is written to it after it is closed, including the
\* paths where closing on success fails or where writing the error record
\* fails because the client has disconnected.
C23_AsStated ==
  \A r \in Reqs : task[r].pc = "done" => ClosedOnce(task[r])

\* ... which holds on every path where the consumer stays connected, and
\* writer.close() is never called twice
ClosedOnceWhenConnected ==
  \A r \in Reqs :
    /\ task[r].closes <= 1
    /\ (task[r].pc = "done" /\ task[r].writer # "errored") => ClosedOnce(task[r])


\* ------------------- TranscriptionForm.tsx: handleSubmit and handleCancel
MaxRecords == 3

\* the lines a response body may hold
ClientRecords ==
  {ProgressRecord(50, <<"a">>, <<"a">>, 1, 2),
   ProgressRecord(100, <<"a", " ", "b">>, <<"b">>, 2, 2),
   ProgressRecord(100, <<>>, <<>>, 1, 1),
   ErrorRecord(Err("chunk", 1))}

Bodies ==
  UNION {[1..n -> ClientRecords] : n \in 0..MaxRecords}

\* TranscriptionForm.tsx:25   the fields of the form
ClientForms == [file : BOOLEAN, url : BOOLEAN, apiKey : BOOLEAN]

\* TranscriptionForm.tsx:78-88   the catch sets the message; the finally
Finish(c, message, path) ==
  [c EXCEPT !.transcription = message, !.isLoading = FALSE,
            !.abortController = FALSE, !.pc = "ended", !.exit = path]

\* TranscriptionForm.tsx:59, 85-88   the stream is done: break, then the finally
FinishAtEnd(c) ==
  [c EXCEPT !.isLoading = FALSE, !.abortController = FALSE, !.pc = "ended",
            !.exit = "end"]

\* TranscriptionForm.tsx:68-75   one update is applied
applyUpdate(c, u) ==
  [c EXCEPT !.progress = u.progress,
            !.transcription = ClientText(u.transcription),
            !.chunkTranscriptions = IF u.chunkTranscription # <<>>
                                    THEN Append(@, u.chunkTranscription) ELSE @,
            !.chunkProgress = [current |-> u.current, total |-> u.total],
            !.applied = Append(@, u)]

\* a loop that steps over an error record
RECURSIVE applyUpdatesBad(_, _)
applyUpdatesBad(c, updates) ==
  IF updates = <<>> THEN c
  ELSE IF IsError(Head(updates))
       THEN applyUpdatesBad(c, Tail(updates))
       ELSE applyUpdatesBad(applyUpdate(c, Head(updates)), Tail(updates))

\* TranscriptionForm.tsx:64-76   the updates of one chunk, in order; an error
\* record throws
RECURSIVE applyUpdates(_, _)
applyUpdates(c, updates) ==
  IF updates = <<>> THEN c
  ELSE IF IsError(Head(updates))
       THEN Finish(c, ClientFailure(Head(updates).error), "errorRecord")
       ELSE applyUpdates(applyUpdate(c, Head(updates)), Tail(updates))

\* TranscriptionForm.tsx:23-48   handleSubmit up to the await of fetch
handleSubmit ==
  /\ client.pc = "idle"
  /\ ~client.isLoading
  /\ \E f \in ClientForms :
       client' = IF (~f.file /\ ~f.url) \/ ~f.apiKey
                 THEN [client EXCEPT !.refused = TRUE]
                 ELSE [client EXCEPT
                         !.pc = "fetch", !.isLoading = TRUE, !.progress = 0,
                         !.chunkProgress = [current |-> 0, total |-> 0],
                         !.transcription = ClientText(<<>>),
                         !.chunkTranscriptions = <<>>,
                         !.abortController = TRUE]
  /\ UNCHANGED <<task, fs, dirExists, now, planner>>

\* TranscriptionForm.tsx:44-55   fetch resolves with a response
FetchResolve ==
  /\ client.pc = "fetch"
  /\ ~client.signalAborted
  /\ \E ok \in BOOLEAN : \E body \in Bodies :
       client' = IF ~ok
                 THEN Finish(client, ClientFailure(Err("http", 0)), "http")
                 ELSE [client EXCEPT !.pc = "read", !.body = body]
  /\ UNCHANGED <<task, fs, dirExists, now, planner>>

\* TranscriptionForm.tsx:44, 78-88   fetch rejects: aborted, or a network error
FetchReject ==
  /\ client.pc = "fetch"
  /\ client' = IF client.signalAborted
               THEN Finish(client, ClientCancelled, "abort")
               ELSE Finish(client, ClientFailure(Err("network", 0)), "network")
  /\ UNCHANGED <<task, fs, dirExists, now, planner>>

\* TranscriptionForm.tsx:58-76   reader.read() resolves with the next bytes: n
\* lines, whole or (torn) cut inside a line, in which case JSON.parse throws
\* before any update of the chunk is applied
ReadChunk ==
  /\ client.pc = "read"
  /\ ~client.signalAborted
  /\ client.body # <<>>
  /\ \E n \in 1..Len(client.body) : \E torn \in BOOLEAN :
       LET lines == SubSeq(client.body, 1, n)
           c == [client EXCEPT !.body = SubSeq(@, n + 1, Len(@)),
                               !.delivered = @ \o lines,
                               !.torn = torn]
       IN client' = IF torn
                    THEN Finish(c, ClientFailure(Err("syntax", 0)), "syntax")
                    ELSE applyUpdates(c, lines)
  /\ UNCHANGED <<task, fs, dirExists, now, planner>>

\* TranscriptionForm.tsx:58-59   reader.read() resolves with done
ReadDone ==
  /\ client.pc = "read"
  /\ ~client.signalAborted
  /\ client.body = <<>>
  /\ client' = FinishAtEnd(client)
  /\ UNCHANGED <<task, fs, dirExists, now, planner>>

\* TranscriptionForm.tsx:58, 78-88   reader.read() rejects: aborted, or the
\* connection failed
ReadReject ==
  /\ client.pc = "read"
  /\ client' = IF client.signalAborted
               THEN Finish(client, ClientCancelled, "abort")
               ELSE Finish(client, ClientFailure(Err("network", 0)), "network")
  /\ UNCHANGED <<task, fs, dirExists, now, planner>>

\* TranscriptionForm.tsx:91-95
handleCancel ==
  /\ client.abortController
  /\ ~client.signalAborted
  /\ client' = [client EXCEPT !.signalAborted = TRUE]
  /\ UNCHANGED <<task, fs, dirExists, now, planner>>

NextClient ==
  \/ handleSubmit
  \/ FetchResolve
  \/ FetchReject
  \/ ReadChunk
  \/ ReadDone
  \/ ReadReject
  \/ handleCancel

SpecClient == Init /\ [][NextClient]_vars


\* the position of the first error record of a sequence of records, or 0
FirstError(recs) ==
  IF \E j \in 1..Len(recs) : IsError(recs[j])
  THEN CHOOSE j \in 1..Len(recs) :
         IsError(recs[j]) /\ \A m \in 1..(j - 1) : ~IsError(recs[m])
  ELSE 0

\* the non-empty chunk texts of a sequence of progress records, in order
RECURSIVE ChunkTexts(_)
ChunkTexts(recs) ==
  IF recs = <<>> THEN <<>>
  ELSE IF Head(recs).chunkTranscription # <<>>
       THEN <<Head(recs).chunkTranscription>> \o ChunkTexts(Tail(recs))
       ELSE ChunkTexts(Tail(recs))

\* what the component shows is the result of the records applied, in order
ShowsApplied(c) ==
  /\ IsPrefix(c.applied, c.delivered)
  /\ \A j \in 1..Len(c.applied) : IsProgress(c.applied[j])
  /\ c.chunkTranscriptions = ChunkTexts(c.applied)
  /\ c.progress = IF c.applied = <<>> THEN 0 ELSE c.applied[Len(c.applied)].progress
  /\ c.chunkProgress =
       IF c.applied = <<>> THEN [current |-> 0, total |-> 0]
       ELSE [current |-> c.applied[Len(c.applied)].current,
             total |-> c.applied[Len(c.applied)].total]
  /\ c.transcription.kind = "text" =>
       c.transcription.text =
         IF c.applied = <<>> THEN <<>> ELSE c.applied[Len(c.applied)].transcription

\* C24: in handleSubmit records are applied in stream order and the first
\* error record stops processing: no record after it changes progress,
\* transcription, chunkProgress or chunkTranscriptions; and on every exit path
\* (stream end, error record, HTTP error, abort by handleCancel) isLoading ends
\* false and abortController ends null.
C24_ClientStopsAtError ==
  LET c == client
      e == FirstError(c.delivered)
  IN /\ ShowsApplied(c)
     /\ (e > 0 /\ ~c.torn)
          => /\ c.pc = "ended"
             /\ c.exit = "errorRecord"
             /\ c.applied = SubSeq(c.delivered, 1, e - 1)
             /\ c.transcription = ClientFailure(c.delivered[e].error)
     /\ c.pc = "ended"
          => /\ ~c.isLoading
             /\ ~c.abortController
             /\ c.exit \in {"end", "errorRecord", "http", "abort", "network", "syntax"}
             /\ c.exit = "abort" <=> c.transcription = ClientCancelled
     /\ c.pc \in {"fetch", "read"} => (c.isLoading /\ c.abortController)
     /\ c.pc = "idle" => (~c.isLoading /\ ~c.abortController)

C24_Witness ==
  /\ client.pc = "ended"
  /\ client.exit = "errorRecord"
  /\ Len(client.delivered) = MaxRecords
  /\ FirstError(client.delivered) = 2
  /\ IsProgress(client.delivered[MaxRecords])
  /\ Len(client.applied) = 1
  /\ client.chunkTranscriptions = <<<<"a">>>>
  /\ ~client.isLoading
  /\ ~client.abortController


=============================================================================
